---- MODULE Spec2Model ----
(***************************************************************************)
(* Isolation game-playing agents (game_agent.py): the three heuristic      *)
(* evaluators, the timeout guard, depth-limited minimax, alpha-beta search *)
(* and the iterative-deepening driver, run against the Isolation board.    *)
(*                                                                         *)
(* Scores are Python floats.  They are modelled as exact fractions         *)
(* <<num, den>> with den >= 1, and the two infinities as <<1, 0>> and      *)
(* <<-1, 0>>.  Cells and moves are <<row, col>> pairs, (-1, -1) the        *)
(* no-move sentinel.  Python index [0] is TLA+ index [1].                  *)
(***************************************************************************)
EXTENDS Integers, Sequences, FiniteSets, TLC

VARIABLES
    game,          \* the board the harness holds
    player,        \* the agent: its class, score_fn and search_depth
    pc,            \* where the caller of the agent stands
    ctx,           \* the time_left observer and the call monitor
    search_depth,  \* AlphaBetaPlayer.get_move's local search_depth
    best_move,     \* AlphaBetaPlayer.get_move's local best_move
    ret            \* how the last call ended

vars == <<game, player, pc, ctx, search_depth, best_move, ret>>

(***************************************************************************)
(* Bounds of the model.                                                    *)
(***************************************************************************)
\* board dimensions
Width == 3
Height == 3
\* plies the harness plays before it asks the agent for a move
MaxPly == 2
\* how far above the threshold a ticking clock starts
MaxBudget == 10
\* largest search_depth of a MinimaxPlayer, and the depth up to which the
\* iterative-deepening loop is followed under a clock that stands still
MaxDepth == 2
\* plies played before a search function is called directly, and the
\* largest depth it is called with
KernelPly == 4
KernelDepth == 3
\* largest board side the evaluators are applied to on their own
MaxSide == 5

(***************************************************************************)
(* Python's control flow.  With(x, F) is F(x) with x evaluated once: the   *)
(* value of an expression bound to a name.  For(Body, st, lo, hi) is a for *)
(* loop over the positions lo..hi of a list: st holds the loop's local     *)
(* variables, and once st.stop is set (a break, or an exception in         *)
(* st.exc) the remaining turns are skipped.  The range is split in halves  *)
(* only to keep the evaluation shallow; the turns run in order.            *)
(***************************************************************************)
With(x, F(_)) == CHOOSE y \in {F(v) : v \in {x}} : TRUE

RECURSIVE For(_, _, _, _)
For(Body(_, _), st, lo, hi) ==
    IF lo > hi \/ st.stop THEN st
    ELSE IF lo = hi THEN Body(st, lo)
    ELSE With(For(Body, st, lo, (lo + hi) \div 2),
              LAMBDA half : For(Body, half, (lo + hi) \div 2 + 1, hi))

(***************************************************************************)
(* Floats as fractions.                                                    *)
(***************************************************************************)
Abs(x) == IF x < 0 THEN -x ELSE x

RECURSIVE GCD(_, _)
GCD(a, b) == IF b = 0 THEN a ELSE GCD(b, a % b)

Frac(n, d) == LET g == GCD(Abs(n), d) IN <<n \div g, d \div g>>

PosInf == <<1, 0>>
NegInf == <<-1, 0>>

\* a < b on floats
Less(a, b) ==
    IF a[2] = 0 \/ b[2] = 0
    THEN (IF a[2] = 0 THEN 2 * a[1] ELSE 0) < (IF b[2] = 0 THEN 2 * b[1] ELSE 0)
    ELSE a[1] * b[2] < b[1] * a[2]

\* Python's min(a, b) and max(a, b): the first argument unless the second beats it
Min2(a, b) == IF Less(b, a) THEN b ELSE a
Max2(a, b) == IF Less(a, b) THEN b ELSE a

\* a + b for finite floats
Plus(a, b) == Frac(a[1] * b[2] + b[1] * a[2], a[2] * b[2])

\* 1 / max(0.01, k) for an integer k
InvClamped(k) == IF k <= 0 THEN <<100, 1>> ELSE Frac(1, k)

(***************************************************************************)
(* The board (isolation.Board), the collaborator the agents consume.       *)
(***************************************************************************)
NOT_MOVED == <<>>
NoMove == <<-1, -1>>

\* the cells in get_blank_spaces order: column by column
AllCells(w, h) == [k \in 1..(w * h) |-> <<(k - 1) % h, (k - 1) \div h>>]

NewBoard(w, h) ==
    [width |-> w, height |-> h,
     blank |-> {AllCells(w, h)[k] : k \in 1..(w * h)},
     loc |-> <<NOT_MOVED, NOT_MOVED>>,
     active |-> 1, move_count |-> 0]

get_opponent(g, p) == 3 - p

IsBlank(g, c) == c \in g.blank

get_blank_spaces(g) ==
    SelectSeq(AllCells(g.width, g.height), LAMBDA c : IsBlank(g, c))

directions ==
    << <<-2, -1>>, <<-2, 1>>, <<-1, -2>>, <<-1, 2>>,
       <<1, -2>>, <<1, 2>>, <<2, -1>>, <<2, 1>> >>

\* the L-shaped moves from loc, every blank cell for a player not yet placed
get_moves(g, loc) ==
    IF loc = NOT_MOVED THEN get_blank_spaces(g)
    ELSE SelectSeq([i \in 1..8 |-> <<loc[1] + directions[i][1],
                                     loc[2] + directions[i][2]>>],
                   LAMBDA c : IsBlank(g, c))

get_legal_moves(g, p) == get_moves(g, g.loc[p])

active_moves(g) == get_legal_moves(g, g.active)

\* a copy of the board with the active player's move applied
forecast_move(g, m) ==
    [g EXCEPT !.blank = @ \ {m},
              !.loc[g.active] = m,
              !.active = 3 - g.active,
              !.move_count = @ + 1]

is_loser(g, p) == p = g.active /\ active_moves(g) = <<>>
is_winner(g, p) == p = 3 - g.active /\ active_moves(g) = <<>>

Range(s) == {s[i] : i \in 1..Len(s)}

(***************************************************************************)
(* The heuristic evaluators.                                               *)
(***************************************************************************)
custom_score(g, p) ==
    IF is_loser(g, p) THEN NegInf
    ELSE IF is_winner(g, p) THEN PosInf
    ELSE LET our_moves == get_legal_moves(g, p)
             opp_moves == get_legal_moves(g, get_opponent(g, p))
             no_reflect_moves ==
                 {m \in Range(our_moves) :
                     <<g.width - 1 - m[1], g.height - 1 - m[2]>> \notin Range(opp_moves)}
         IN  <<Cardinality(no_reflect_moves) * Cardinality(no_reflect_moves)
                 - Len(opp_moves), 1>>

\* score += 1/width_distance + 1/height_distance
center_body(g, move, st) ==
    With(InvClamped(g.width \div 2 - move[2]), LAMBDA inv_width_distance :
    With(InvClamped(g.height \div 2 - move[1]), LAMBDA inv_height_distance :
        [st EXCEPT !.score = Plus(@, Plus(inv_width_distance, inv_height_distance))]))

custom_score_2(g, p) ==
    IF is_loser(g, p) THEN NegInf
    ELSE IF is_winner(g, p) THEN PosInf
    ELSE With(get_legal_moves(g, p), LAMBDA our_moves :
            For(LAMBDA st, i : center_body(g, our_moves[i], st),
                [score |-> <<0, 1>>, stop |-> FALSE], 1, Len(our_moves)).score)

custom_score_3(g, p) ==
    IF is_loser(g, p) THEN NegInf
    ELSE IF is_winner(g, p) THEN PosInf
    ELSE LET opp_moves == get_legal_moves(g, get_opponent(g, p))
         IN  IF Len(opp_moves) = 0 THEN <<1000000, 1>> ELSE Frac(100, Len(opp_moves))

(***************************************************************************)
(* The time_left observer and the timeout guard.  The clock is read in     *)
(* half milliseconds, so that TIMER_THRESHOLD = timeout - 0.5 is a whole   *)
(* number.  An observer is a reading t and the amount dec by which each    *)
(* query lowers it; dec = 0 is a clock that stands still.                  *)
(*                                                                         *)
(* The call monitor rides along with the observer: frames holds, for each  *)
(* search function on the call stack, whether it has run time_check yet;   *)
(* guard_first turns FALSE when a search function touches the board or the *)
(* evaluator before its time_check; ncalls and nscore count the search     *)
(* functions entered and the evaluator calls.                              *)
(***************************************************************************)
timeout == 10

TIMER_THRESHOLD == 2 * timeout - 1

NewCtx(t, dec) ==
    [t |-> t, dec |-> dec, frames |-> <<>>, guard_first |-> TRUE,
     ncalls |-> 0, nscore |-> 0]

\* a search function is entered, left by return, left by an exception
Enter(c) == [c EXCEPT !.frames = Append(@, FALSE), !.ncalls = @ + 1]
Leave(c) == [c EXCEPT !.frames = SubSeq(@, 1, Len(@) - 1)]
Unwind(c) == [c EXCEPT !.frames = <<>>]

\* the running function calls get_legal_moves or forecast_move
Touch(c) ==
    [c EXCEPT !.guard_first = @ /\ (c.frames = <<>> \/ c.frames[Len(c.frames)])]

\* the running function calls self.score
Scored(c) == [Touch(c) EXCEPT !.nscore = @ + 1]

Ret(v, c) == [exc |-> "none", val |-> v, c |-> c]
Raise(e, c) == [exc |-> e, val |-> NoMove, c |-> Unwind(c)]

\* self.time_left() < self.TIMER_THRESHOLD
Expired(reading) == reading < TIMER_THRESHOLD

time_check(c) ==
    LET c1 == [c EXCEPT !.t = @ - c.dec,
                        !.frames = [i \in 1..Len(@) |-> (i = Len(@)) \/ @[i]]]
    IN  IF Expired(c.t) THEN Raise("SearchTimeout", c1) ELSE Ret(TRUE, c1)

\* self.score(game, self)
score(self, g) ==
    CASE self.score_fn = 1 -> custom_score(g, self.me)
      [] self.score_fn = 2 -> custom_score_2(g, self.me)
      [] OTHER -> custom_score_3(g, self.me)

(***************************************************************************)
(* The local variables of a search function's loop, and the exception     *)
(* that leaves it.                                                         *)
(***************************************************************************)
\* the loop's local variables at its start
Locals(vs, c) == vs @@ [stop |-> FALSE, exc |-> "none", c |-> c]

\* an exception raised in the loop's body leaves the loop
Thrown(st, r) == [st EXCEPT !.stop = TRUE, !.exc = r.exc, !.c = r.c]

\* after the loop: the exception goes on, or the function returns v
Finish(st, v) == IF st.exc # "none" THEN Raise(st.exc, st.c) ELSE Ret(v, Leave(st.c))

(***************************************************************************)
(* MinimaxPlayer.                                                          *)
(***************************************************************************)
terminal_test(g, c) ==
    With(time_check(c), LAMBDA tc :
        IF tc.exc # "none" THEN tc
        ELSE Ret(active_moves(g) = <<>>, Touch(tc.c)))

RECURSIVE mm_min_value(_, _, _, _), mm_max_value(_, _, _, _)

\* v = min(v, self.max_value(game.forecast_move(m), depth-1))
mm_min_body(self, g, depth, m, st) ==
    With(forecast_move(g, m), LAMBDA child :
    With(mm_max_value(self, child, depth - 1, Touch(st.c)), LAMBDA r :
        IF r.exc # "none" THEN Thrown(st, r)
        ELSE [st EXCEPT !.v = Min2(@, r.val), !.c = r.c]))

mm_min_value(self, g, depth, c) ==
    With(terminal_test(g, Enter(c)), LAMBDA tt :
        IF tt.exc # "none" THEN tt
        ELSE IF tt.val THEN Ret(PosInf, Leave(tt.c))
        ELSE IF depth = 0 THEN Ret(score(self, g), Leave(Scored(tt.c)))
        ELSE With(active_moves(g), LAMBDA legal_moves :
             With(For(LAMBDA st, i : mm_min_body(self, g, depth, legal_moves[i], st),
                      Locals([v |-> PosInf], Touch(tt.c)), 1, Len(legal_moves)),
                  LAMBDA st : Finish(st, st.v))))

\* v = max(v, self.min_value(game.forecast_move(m), depth-1))
mm_max_body(self, g, depth, m, st) ==
    With(forecast_move(g, m), LAMBDA child :
    With(mm_min_value(self, child, depth - 1, Touch(st.c)), LAMBDA r :
        IF r.exc # "none" THEN Thrown(st, r)
        ELSE [st EXCEPT !.v = Max2(@, r.val), !.c = r.c]))

mm_max_value(self, g, depth, c) ==
    With(terminal_test(g, Enter(c)), LAMBDA tt :
        IF tt.exc # "none" THEN tt
        ELSE IF tt.val THEN Ret(NegInf, Leave(tt.c))
        ELSE IF depth = 0 THEN Ret(score(self, g), Leave(Scored(tt.c)))
        ELSE With(active_moves(g), LAMBDA legal_moves :
             With(For(LAMBDA st, i : mm_max_body(self, g, depth, legal_moves[i], st),
                      Locals([v |-> NegInf], Touch(tt.c)), 1, Len(legal_moves)),
                  LAMBDA st : Finish(st, st.v))))

\* one element of Python's max(moves, key = ...): the first move whose key
\* is the largest stays
mm_key_body(self, g, depth, m, st) ==
    With(forecast_move(g, m), LAMBDA child :
    With(mm_min_value(self, child, depth - 1, Touch(st.c)), LAMBDA r :
        IF r.exc # "none" THEN Thrown(st, r)
        ELSE IF st.best = NoMove \/ Less(st.best_key, r.val)
             THEN [st EXCEPT !.best = m, !.best_key = r.val, !.c = r.c]
             ELSE [st EXCEPT !.c = r.c]))

\* max() of an empty sequence raises ValueError
minimax(self, g, depth, c) ==
    With(active_moves(g), LAMBDA legal_moves :
        IF legal_moves = <<>> THEN Raise("ValueError", Touch(Enter(c)))
        ELSE With(For(LAMBDA st, i : mm_key_body(self, g, depth, legal_moves[i], st),
                      Locals([best |-> NoMove, best_key |-> NegInf], Touch(Enter(c))),
                      1, Len(legal_moves)),
                  LAMBDA st : Finish(st, st.best)))

\* MinimaxPlayer.get_move
mm_get_move(self, g, c) ==
    With(terminal_test(g, c), LAMBDA tt :
        IF tt.exc # "none" THEN tt
        ELSE IF tt.val THEN Ret(NoMove, tt.c)
        ELSE With(minimax(self, g, self.search_depth, tt.c), LAMBDA r :
                IF r.exc = "SearchTimeout" THEN Ret(NoMove, r.c) ELSE r))

(***************************************************************************)
(* AlphaBetaPlayer.                                                        *)
(***************************************************************************)
RECURSIVE ab_min_value(_, _, _, _, _, _), ab_max_value(_, _, _, _, _, _)

ab_min_body(self, g, depth, move, st) ==
    With(forecast_move(g, move), LAMBDA child :
    With(ab_max_value(self, child, depth - 1, st.alpha, st.beta, Touch(st.c)), LAMBDA r :
        IF r.exc # "none" THEN Thrown(st, r)
        ELSE With(Min2(st.score, r.val), LAMBDA sc :
                IF ~Less(st.alpha, sc)
                THEN [st EXCEPT !.score = sc, !.stop = TRUE, !.c = r.c]
                ELSE [st EXCEPT !.score = sc, !.beta = Min2(@, sc), !.c = r.c])))

\* the loop runs over a second game.get_legal_moves()
ab_min_value(self, g, depth, alpha, beta, c) ==
    With(time_check(Enter(c)), LAMBDA tc :
        IF tc.exc # "none" THEN tc
        ELSE IF depth = 0 THEN Ret(score(self, g), Leave(Scored(tc.c)))
        ELSE With(active_moves(g), LAMBDA legal_moves :
                IF legal_moves = <<>> THEN Ret(PosInf, Leave(Touch(tc.c)))
                ELSE With(For(LAMBDA st, i : ab_min_body(self, g, depth, legal_moves[i], st),
                              Locals([score |-> PosInf, alpha |-> alpha, beta |-> beta],
                                     Touch(Touch(tc.c))),
                              1, Len(legal_moves)),
                          LAMBDA st : Finish(st, st.score))))

ab_max_body(self, g, depth, move, st) ==
    With(forecast_move(g, move), LAMBDA child :
    With(ab_min_value(self, child, depth - 1, st.alpha, st.beta, Touch(st.c)), LAMBDA r :
        IF r.exc # "none" THEN Thrown(st, r)
        ELSE With(Max2(st.score, r.val), LAMBDA sc :
                IF ~Less(sc, st.beta)
                THEN [st EXCEPT !.score = sc, !.stop = TRUE, !.c = r.c]
                ELSE [st EXCEPT !.score = sc, !.alpha = Max2(@, sc), !.c = r.c])))

ab_max_value(self, g, depth, alpha, beta, c) ==
    With(time_check(Enter(c)), LAMBDA tc :
        IF tc.exc # "none" THEN tc
        ELSE IF depth = 0 THEN Ret(score(self, g), Leave(Scored(tc.c)))
        ELSE With(active_moves(g), LAMBDA legal_moves :
                IF legal_moves = <<>> THEN Ret(NegInf, Leave(Touch(tc.c)))
                ELSE With(For(LAMBDA st, i : ab_max_body(self, g, depth, legal_moves[i], st),
                              Locals([score |-> NegInf, alpha |-> alpha, beta |-> beta],
                                     Touch(tc.c)),
                              1, Len(legal_moves)),
                          LAMBDA st : Finish(st, st.score))))

\* score = self.min_value(...); alpha = max(alpha, score);
\* if score > best_score: best_score = score; best_move = move
ab_root_body(self, g, depth, move, st) ==
    With(forecast_move(g, move), LAMBDA child :
    With(ab_min_value(self, child, depth - 1, st.alpha, st.beta, Touch(st.c)), LAMBDA r :
        IF r.exc # "none" THEN Thrown(st, r)
        ELSE IF Less(st.best_score, r.val)
             THEN [st EXCEPT !.alpha = Max2(@, r.val), !.best_score = r.val,
                             !.best_move = move, !.c = r.c]
             ELSE [st EXCEPT !.alpha = Max2(@, r.val), !.c = r.c]))

alphabeta(self, g, depth, alpha, beta, c) ==
    With(time_check(Enter(c)), LAMBDA tc :
        IF tc.exc # "none" THEN tc
        ELSE With(active_moves(g), LAMBDA legal_moves :
                IF legal_moves = <<>> THEN Ret(NoMove, Leave(Touch(tc.c)))
                ELSE With(For(LAMBDA st, i : ab_root_body(self, g, depth, legal_moves[i], st),
                              Locals([best_score |-> NegInf, best_move |-> NoMove,
                                      alpha |-> alpha, beta |-> beta], Touch(tc.c)),
                              1, Len(legal_moves)),
                          LAMBDA st : Finish(st, st.best_move))))

(***************************************************************************)
(* The harness: it builds an agent, plays plies on the board, and calls    *)
(* the agent's get_move, or one of its search functions directly, under a  *)
(* time_left observer of its choice.                                       *)
(***************************************************************************)
DefaultDepth == 3

MinimaxPlayers(maxd) ==
    [kind : {"MinimaxPlayer"}, score_fn : 1..3, search_depth : 1..maxd]

AlphaBetaPlayers ==
    [kind : {"AlphaBetaPlayer"}, score_fn : 1..3, search_depth : {DefaultDepth}]

\* the observers: ticking clocks that start below, at or above the threshold,
\* and one clock that stands still above it
Observers ==
    {[t |-> t, dec |-> 1] : t \in (TIMER_THRESHOLD - 1)..(TIMER_THRESHOLD + MaxBudget)}
    \cup {[t |-> TIMER_THRESHOLD, dec |-> 0]}

\* a clock that never runs out
Still == NewCtx(TIMER_THRESHOLD, 0)

NoRet == [op |-> "none", exc |-> "none", val |-> NoMove, depth |-> 0]

\* the agent is the player to move
Self == [me |-> game.active, score_fn |-> player.score_fn,
         search_depth |-> player.search_depth]

InitWith(players) ==
    /\ game = NewBoard(Width, Height)
    /\ player \in players
    /\ pc = "idle"
    /\ ctx = NewCtx(0, 0)
    /\ search_depth = 1
    /\ best_move = NoMove
    /\ ret = NoRet

\* Board.apply_move by the harness
PlayUpTo(plies) ==
    /\ pc = "idle"
    /\ game.move_count < plies
    /\ \E m \in Range(active_moves(game)) : game' = forecast_move(game, m)
    /\ UNCHANGED <<player, pc, ctx, search_depth, best_move, ret>>

\* the caller takes the result
Resume ==
    /\ pc = "done"
    /\ pc' = "idle"
    /\ ctx' = NewCtx(0, 0)
    /\ search_depth' = 1
    /\ best_move' = NoMove
    /\ ret' = NoRet
    /\ UNCHANGED <<game, player>>

(***************************************************************************)
(* A match: get_move of either agent.                                      *)
(***************************************************************************)
Init == InitWith(MinimaxPlayers(MaxDepth) \cup AlphaBetaPlayers)

Play == PlayUpTo(MaxPly)

MinimaxGetMove ==
    /\ pc = "idle"
    /\ player.kind = "MinimaxPlayer"
    /\ \E o \in Observers :
          \E r \in {mm_get_move(Self, game, NewCtx(o.t, o.dec))} :
              /\ ret' = [op |-> "get_move", exc |-> r.exc, val |-> r.val,
                         depth |-> player.search_depth]
              /\ ctx' = r.c
    /\ pc' = "done"
    /\ UNCHANGED <<game, player, search_depth, best_move>>

\* the opening book of AlphaBetaPlayer.get_move
first_move(g) == <<g.width \div 2, g.height \div 2>>

\* the book consulted on the very first ply only
OpeningBookFirstPly(g) ==
    /\ g.move_count = 0
    /\ first_move(g) \in Range(get_legal_moves(g, g.active))

OpeningBook(g) ==
    /\ g.move_count = 0 \/ g.move_count = 1
    /\ first_move(g) \in Range(get_legal_moves(g, g.active))

\* AlphaBetaPlayer.get_move up to its loop
AlphaBetaGetMove ==
    /\ pc = "idle"
    /\ player.kind = "AlphaBetaPlayer"
    /\ \E o \in Observers : ctx' = NewCtx(o.t, o.dec)
    /\ best_move' = NoMove
    /\ search_depth' = 1
    /\ IF OpeningBook(game)
       THEN /\ pc' = "done"
            /\ ret' = [op |-> "get_move", exc |-> "none", val |-> first_move(game),
                       depth |-> 0]
       ELSE /\ pc' = "loop"
            /\ ret' = NoRet
    /\ UNCHANGED <<game, player>>

\* an except clause that matches nothing
CaughtNothing(exc) == FALSE

\* except SearchTimeout
Caught(exc) == exc = "SearchTimeout"

\* best_move assigned whatever the aborted call left behind
RecordedAnyway(best, r) == r.val

\* best_move after one turn of the loop
Recorded(best, r) == IF Caught(r.exc) THEN best ELSE r.val

\* the depth up to which the model follows the loop
DepthCap(c) == IF c.dec = 0 THEN MaxDepth ELSE MaxBudget + 2

\* one turn of the while True loop, and the except clause that ends it
AlphaBetaIterate ==
    /\ pc = "loop"
    /\ search_depth <= DepthCap(ctx)
    /\ \E r \in {alphabeta(Self, game, search_depth, NegInf, PosInf, ctx)} :
           /\ ctx' = r.c
           /\ best_move' = Recorded(best_move, r)
           /\ IF Caught(r.exc)
              THEN /\ pc' = "done"
                   /\ ret' = [op |-> "get_move", exc |-> "none", val |-> best_move',
                              depth |-> search_depth]
                   /\ UNCHANGED search_depth
              ELSE /\ search_depth' = search_depth + 1
                   /\ UNCHANGED <<pc, ret>>
    /\ UNCHANGED <<game, player>>

Next ==
    \/ Play
    \/ MinimaxGetMove
    \/ AlphaBetaGetMove
    \/ AlphaBetaIterate
    \/ Resume

Spec == Init /\ [][Next]_vars

\* the agent runs on: a loop that can take its next turn takes it
SpecLive == Spec /\ WF_vars(AlphaBetaIterate)

(***************************************************************************)
(* Direct calls of the search functions, time_left set by the caller.      *)
(***************************************************************************)
InitKernel == InitWith(MinimaxPlayers(KernelDepth) \cup AlphaBetaPlayers)

PlayKernel == PlayUpTo(KernelPly)

CallMinimax ==
    /\ pc = "idle"
    /\ player.kind = "MinimaxPlayer"
    /\ \E o \in Observers :
          \E r \in {minimax(Self, game, player.search_depth, NewCtx(o.t, o.dec))} :
              /\ ret' = [op |-> "minimax", exc |-> r.exc, val |-> r.val,
                         depth |-> player.search_depth]
              /\ ctx' = r.c
    /\ pc' = "done"
    /\ UNCHANGED <<game, player, search_depth, best_move>>

\* alphabeta with its default window
CallAlphabeta ==
    /\ pc = "idle"
    /\ player.kind = "AlphaBetaPlayer"
    /\ \E o \in Observers, d \in 1..KernelDepth :
          \E r \in {alphabeta(Self, game, d, NegInf, PosInf, NewCtx(o.t, o.dec))} :
              /\ ret' = [op |-> "alphabeta", exc |-> r.exc, val |-> r.val, depth |-> d]
              /\ ctx' = r.c
    /\ pc' = "done"
    /\ UNCHANGED <<game, player, search_depth, best_move>>

NextKernel ==
    \/ PlayKernel
    \/ CallMinimax
    \/ CallAlphabeta
    \/ Resume

SpecKernel == InitKernel /\ [][NextKernel]_vars

(***************************************************************************)
(* The evaluators on their own: the harness builds a board of some size,   *)
(* may close every cell but one, and scores it for either player.          *)
(***************************************************************************)
InitScore ==
    /\ game \in {NewBoard(w, h) : w \in 3..MaxSide, h \in 3..MaxSide}
    /\ player \in AlphaBetaPlayers
    /\ pc = "idle"
    /\ ctx = NewCtx(0, 0)
    /\ search_depth = 1
    /\ best_move = NoMove
    /\ ret = NoRet

LeaveOpen ==
    /\ pc = "idle"
    /\ Cardinality(game.blank) > 1
    /\ \E cell \in game.blank : game' = [game EXCEPT !.blank = {cell}]
    /\ UNCHANGED <<player, pc, ctx, search_depth, best_move, ret>>

Evaluate ==
    /\ pc = "idle"
    /\ \E p \in 1..2 :
          ret' = [op |-> "score", exc |-> "none",
                  val |-> score([me |-> p, score_fn |-> player.score_fn], game),
                  depth |-> p]
    /\ pc' = "done"
    /\ UNCHANGED <<game, player, ctx, search_depth, best_move>>

NextScore ==
    \/ LeaveOpen
    \/ Evaluate
    \/ Resume

SpecScore == InitScore /\ [][NextScore]_vars

(***************************************************************************)
(* Properties.                                                             *)
(***************************************************************************)
LegalMoves == active_moves(game)

IsAlphaBeta == player.kind = "AlphaBetaPlayer"

\* the move a call alphabeta(game, d) returns when it runs to its end
Completed(d) == alphabeta(Self, game, d, NegInf, PosInf, Still).val

\* the depth-limited minimax value of move m in a search of depth d
MinimaxValue(m, d) == mm_min_value(Self, forecast_move(game, m), d - 1, Still).val

Center(g) == <<g.height \div 2, g.width \div 2>>

Corners(g) == {<<r, c>> : r \in {0, g.height - 1}, c \in {0, g.width - 1}}

\* C1: get_move of either agent never lets SearchTimeout reach its caller,
\* whatever the observer reports, its first reading included.
C1_TimeoutNeverEscapes ==
    (pc = "done" /\ ret.op = "get_move") => ret.exc # "SearchTimeout"

\* C2: without the opening book, AlphaBetaPlayer.get_move runs alphabeta at
\* depths 1, 2, 3, ... in order: while it stands at depth d its best_move is
\* the move of the completed alphabeta(game, d-1), the sentinel for d = 1; and
\* when the call at depth d times out, that best_move is what it returns.
C2_LastCompletedDepth ==
    IsAlphaBeta =>
        /\ pc = "loop" =>
              best_move = (IF search_depth = 1 THEN NoMove
                           ELSE Completed(search_depth - 1))
        /\ (pc = "done" /\ ret.op = "get_move" /\ ret.depth >= 1) =>
              /\ ret.exc = "none"
              /\ ret.val = (IF ret.depth = 1 THEN NoMove ELSE Completed(ret.depth - 1))

\* a timeout in the third or a later turn hands back a move, and not the move
\* the aborted call would have found
C2_Witness ==
    /\ IsAlphaBeta /\ pc = "done" /\ ret.op = "get_move"
    /\ ret.depth >= 3
    /\ ret.val # NoMove
    /\ ret.val # Completed(ret.depth)

\* C3: where the player to move has a legal move, the move alphabeta(game,
\* depth) returns with the default window has the same depth-limited minimax
\* value as the move minimax(game, depth) returns, neither call timing out.
C3_SameMinimaxValue ==
    (IsAlphaBeta /\ pc = "done" /\ ret.op = "alphabeta" /\ ret.exc = "none"
        /\ LegalMoves # <<>>) =>
        \E mm \in {minimax(Self, game, ret.depth, Still)} :
            /\ mm.exc = "none"
            /\ ret.val \in Range(LegalMoves)
            /\ MinimaxValue(ret.val, ret.depth) = MinimaxValue(mm.val, ret.depth)

\* C4: a completed alphabeta(game, depth) returns the sentinel only when the
\* player to move has no legal move, and otherwise one of the legal moves.
C4_SentinelOnlyWithoutMoves ==
    (IsAlphaBeta /\ pc = "done" /\ ret.op = "alphabeta" /\ ret.exc = "none") =>
        IF LegalMoves = <<>> THEN ret.val = NoMove ELSE ret.val \in Range(LegalMoves)

\* C5: on a state whose player to move has no legal move, minimax(game, depth)
\* and alphabeta(game, depth) both return the sentinel, raise nothing and
\* never call the evaluator (under a clock that does not run out).
C5_SentinelWithoutMoves ==
    (pc = "done" /\ ret.op \in {"minimax", "alphabeta"} /\ ctx.dec = 0
        /\ LegalMoves = <<>>) =>
        /\ ret.exc = "none"
        /\ ret.val = NoMove
        /\ ctx.nscore = 0

\* C6: get_move of either agent, on a state whose player to move has no legal
\* move, returns the sentinel without entering a search function even once.
C6_NoSearchWithoutMoves ==
    LegalMoves = <<>> =>
        /\ ctx.ncalls = 0
        /\ (pc = "done" /\ ret.op = "get_move" /\ ret.exc = "none") => ret.val = NoMove

\* C7: on ply 0 or 1 with the cell (width // 2, height // 2) among the legal
\* moves, AlphaBetaPlayer.get_move returns that cell and enters no search
\* function and no evaluator, whatever the observer reports.
C7_OpeningBookWithoutSearch ==
    (IsAlphaBeta /\ game.move_count \in {0, 1}
        /\ <<game.width \div 2, game.height \div 2>> \in Range(LegalMoves)) =>
        /\ pc # "loop"
        /\ pc = "done" =>
              /\ ret.exc = "none"
              /\ ret.val = <<game.width \div 2, game.height \div 2>>
              /\ ctx.ncalls = 0
              /\ ctx.nscore = 0

\* the book answers on the second ply under a clock that has already run out
C7_Witness ==
    /\ IsAlphaBeta /\ pc = "done" /\ ret.op = "get_move"
    /\ game.move_count = 1
    /\ ret.val = <<game.width \div 2, game.height \div 2>>
    /\ Expired(ctx.t)

\* C8: custom_score_2 on a board whose only legal move is the exact center
\* cell is strictly higher than on the same board with a corner cell as the
\* only legal move, for each of the four corners.
C8_CenterBeatsCorner ==
    (pc = "done" /\ ret.op = "score" /\ player.score_fn = 2
        /\ game.width % 2 = 1 /\ game.height % 2 = 1
        /\ \E corner \in Corners(game) : game.blank = {corner}) =>
        Less(ret.val, custom_score_2([game EXCEPT !.blank = {Center(game)}], ret.depth))

\* C9: every search function runs time_check before it calls get_legal_moves,
\* forecast_move or the evaluator.
C9_GuardFirst == ctx.guard_first

AlphaBetaTimeoutNeverEscapes ==
    (pc = "done" /\ ret.op = "get_move" /\ ret.exc = "SearchTimeout") =>
        (~IsAlphaBeta /\ ctx.ncalls = 0)

\* of C3: whenever alphabeta returns a move at all, its minimax value is that
\* of minimax's move; it returns the sentinel exactly when every legal move
\* has the value -inf
SameMinimaxValueUnlessSentinel ==
    (IsAlphaBeta /\ pc = "done" /\ ret.op = "alphabeta" /\ ret.exc = "none"
        /\ LegalMoves # <<>>) =>
        IF ret.val = NoMove
        THEN \A m \in Range(LegalMoves) : MinimaxValue(m, ret.depth) = NegInf
        ELSE \E mm \in {minimax(Self, game, ret.depth, Still)} :
                /\ mm.exc = "none"
                /\ ret.val \in Range(LegalMoves)
                /\ MinimaxValue(ret.val, ret.depth) = MinimaxValue(mm.val, ret.depth)

\* of C5: alphabeta on a state without legal moves returns the sentinel
AlphabetaSentinelWithoutMoves ==
    (pc = "done" /\ ret.op = "alphabeta" /\ ctx.dec = 0 /\ LegalMoves = <<>>) =>
        /\ ret.exc = "none"
        /\ ret.val = NoMove
        /\ ctx.nscore = 0

\* of C6: MinimaxPlayer.get_move enters no search function on such a state
MinimaxNoSearchWithoutMoves ==
    (LegalMoves = <<>> /\ ~IsAlphaBeta) =>
        /\ ctx.ncalls = 0
        /\ (pc = "done" /\ ret.op = "get_move" /\ ret.exc = "none") => ret.val = NoMove

\* of C8: the center beats the three corners that are not past it on both axes
CenterBeatsOtherCorners ==
    (pc = "done" /\ ret.op = "score" /\ player.score_fn = 2
        /\ game.width % 2 = 1 /\ game.height % 2 = 1
        /\ \E corner \in Corners(game) \ {<<game.height - 1, game.width - 1>>} :
               game.blank = {corner}) =>
        Less(ret.val, custom_score_2([game EXCEPT !.blank = {Center(game)}], ret.depth))

\* of C9: the functions of AlphaBetaPlayer all run time_check first
AlphabetaGuardFirst == ret.op = "alphabeta" => ctx.guard_first

====
